---------------------------- MODULE Spec2Model ----------------------------
(***************************************************************************)
(* Model of js-calcs: the US Standard Atmosphere 1976 calculator (class    *)
(* Atmosphere) and the WGS84 geodetic/ECEF converter (class WGS84).        *)
(*                                                                         *)
(* JavaScript Numbers are modelled as signed decimal fixed-point numbers   *)
(* with FracLimbs groups of four decimal digits after the point and an     *)
(* unbounded integer part.  Sums, differences and comparisons are exact;   *)
(* products, quotients and the Math.* functions are truncated to the last  *)
(* fraction digit, which is finer than an IEEE double in every range the   *)
(* programs use.  NaN is a separate value that every comparison rejects.   *)
(*                                                                         *)
(* Where the rounding of doubles itself is in question, for the            *)
(* temperature profile at the layer boundaries, the statements of update   *)
(* that give this.temp are modelled once more in IEEE 754 binary64         *)
(* (specification Spec64).                                                 *)
(***************************************************************************)
EXTENDS Integers, Sequences, FiniteSets, TLC

(***************************************************************************)
(* Natural numbers as little-endian sequences of base-10^4 limbs; the      *)
(* canonical form has no zero limb at the high end, zero is << >>.         *)
(***************************************************************************)
Base == 10 ^ 4

\* Fraction limbs kept by every Number (4 decimal digits each).
FracLimbs == 5

Limb(s, i) == IF i >= 1 /\ i <= Len(s) THEN s[i] ELSE 0

MaxOf(S) == CHOOSE i \in S : \A j \in S : j <= i

NTrim(s) ==
    LET nz == {i \in 1..Len(s) : s[i] # 0}
    IN  IF nz = {} THEN << >> ELSE SubSeq(s, 1, MaxOf(nz))

\* Carry (or borrow) propagation over column values c[i..], low limb first.
RECURSIVE NCarry(_, _, _)
NCarry(c, i, carry) ==
    IF i > Len(c) THEN << >>
    ELSE LET t == c[i] + carry
         IN  <<t % Base>> \o NCarry(c, i + 1, t \div Base)

NAdd(a, b) ==
    LET n == (IF Len(a) > Len(b) THEN Len(a) ELSE Len(b)) + 1
    IN  NTrim(NCarry([i \in 1..n |-> Limb(a, i) + Limb(b, i)], 1, 0))

\* a - b for a >= b
NSub(a, b) ==
    IF Len(a) = 0 THEN << >>
    ELSE NTrim(NCarry([i \in 1..Len(a) |-> a[i] - Limb(b, i)], 1, 0))

\* -1, 0, 1 as a < b, a = b, a > b (canonical forms)
NCmp(a, b) ==
    IF Len(a) # Len(b) THEN (IF Len(a) > Len(b) THEN 1 ELSE -1)
    ELSE LET diff == {i \in 1..Len(a) : a[i] # b[i]}
         IN  IF diff = {} THEN 0
             ELSE LET k == MaxOf(diff) IN IF a[k] > b[k] THEN 1 ELSE -1

\* a * B^n
NShiftLeft(a, n) ==
    IF Len(a) = 0 \/ n = 0 THEN a ELSE [i \in 1..n |-> 0] \o a

\* floor(a / B^n)
NShiftRight(a, n) ==
    IF Len(a) <= n THEN << >> ELSE SubSeq(a, n + 1, Len(a))

\* a * k for an integer 0 <= k <= 200000
NMulSmall(a, k) ==
    IF k = 0 \/ Len(a) = 0 THEN << >>
    ELSE NTrim(NCarry([i \in 1..(Len(a) + 2) |-> Limb(a, i) * k], 1, 0))

\* Sum of a[i] * b[k + 1 - i] over i = lo..hi: column k of the product.
RECURSIVE ColSum(_, _, _, _, _)
ColSum(a, b, k, i, hi) ==
    IF i > hi THEN 0 ELSE a[i] * b[k + 1 - i] + ColSum(a, b, k, i + 1, hi)

NMul(a, b) ==
    IF Len(a) = 0 \/ Len(b) = 0 THEN << >>
    ELSE LET la == Len(a)
             lb == Len(b)
             col == [k \in 1..(la + lb) |->
                        IF k = la + lb THEN 0
                        ELSE ColSum(a, b, k,
                                    IF k > lb THEN k + 1 - lb ELSE 1,
                                    IF k > la THEN la ELSE k)]
         IN  NTrim(NCarry(col, 1, 0))

\* floor(a / k) for an integer 1 <= k <= 200000: the limbs of a from the high
\* one (i) down, rem the remainder so far, quot the quotient limbs so far.
RECURSIVE NDivSmallFrom(_, _, _, _, _)
NDivSmallFrom(a, k, i, rem, quot) ==
    IF i = 0 THEN quot
    ELSE LET t == rem * Base + a[i]
             r == t % k
             q == <<t \div k>> \o quot
         IN  IF r >= 0 /\ Len(q) > 0 THEN NDivSmallFrom(a, k, i - 1, r, q) ELSE << >>

NDivSmall(a, k) == NTrim(NDivSmallFrom(a, k, Len(a), 0, << >>))

\* Largest q in qlo..qhi with q * b <= r (qlo satisfies it).
RECURSIVE QuotDigit(_, _, _, _)
QuotDigit(r, b, qlo, qhi) ==
    IF qlo >= qhi THEN qlo
    ELSE IF NCmp(NMulSmall(b, qhi), r) <= 0 THEN qhi
         ELSE QuotDigit(r, b, qlo, qhi - 1)

\* Schoolbook long division of a by the normalised divisor b (top limb >=
\* Base/2), from the high limb of a (i) down: rem is the remainder so far,
\* quot the quotient limbs so far.
RECURSIVE NDivFrom(_, _, _, _, _)

\* The step at limb i once its quotient digit q is known; r is the running
\* remainder with limb i brought down.
NDivNext(a, b, i, r, quot, q) ==
    LET nrem == NSub(r, NMulSmall(b, q))
        nquot == <<q>> \o quot
    IN  IF Len(nrem) >= 0 /\ Len(nquot) > 0
        THEN NDivFrom(a, b, i - 1, nrem, nquot)
        ELSE << >>

\* The quotient digit of r by b: an estimate from the top limbs, at most two
\* too large, corrected downwards.
NDivDigit(r, b, est) ==
    IF NCmp(r, b) < 0 THEN 0
    ELSE QuotDigit(r, b, IF est >= 2 THEN est - 2 ELSE 0, est)

NDivStep(a, b, i, r, quot) ==
    NDivNext(a, b, i, r, quot,
             NDivDigit(r, b,
                       LET est == (Limb(r, Len(b) + 1) * Base + Limb(r, Len(b))) \div b[Len(b)]
                       IN  IF est > Base - 1 THEN Base - 1 ELSE est))

NDivFrom(a, b, i, rem, quot) ==
    IF i = 0 THEN quot ELSE NDivStep(a, b, i, NTrim(<<a[i]>> \o rem), quot)

\* floor(a / b) for b # 0
NDiv(a, b) ==
    LET d == Base \div (b[Len(b)] + 1)
        an == NMulSmall(a, d)
        bn == NMulSmall(b, d)
    IN  IF NCmp(a, b) < 0 THEN << >>
        ELSE NTrim(NDivFrom(an, bn, Len(an), << >>, << >>))

\* The limbs of an integer 0 <= n < 2^31.
NFromInt(n) == NTrim(<<n % Base, (n \div Base) % Base, n \div (Base * Base)>>)

\* floor(sqrt(n)) for an integer 0 <= n < Base^2, by bisection on lo..hi.
RECURSIVE ISqrtIn(_, _, _)
ISqrtIn(n, lo, hi) ==
    IF lo >= hi THEN lo
    ELSE LET mid == (lo + hi + 1) \div 2
         IN  IF mid * mid <= n THEN ISqrtIn(n, mid, hi) ELSE ISqrtIn(n, lo, mid - 1)

\* Newton's iteration x <- (x + a/x)/2 from an x >= sqrt(a), until it stops
\* decreasing: floor(sqrt(a)).
RECURSIVE NSqrtFrom(_, _)

NSqrtNext(a, x, y) == IF NCmp(y, x) >= 0 THEN x ELSE NSqrtFrom(a, y)

NSqrtFrom(a, x) == NSqrtNext(a, x, NDivSmall(NAdd(x, NDiv(a, x)), 2))

NSqrt(a) ==
    LET n == Len(a)
    IN  IF n = 0 THEN << >>
        ELSE IF n <= 2 THEN NFromInt(ISqrtIn(Limb(a, 2) * Base + a[1], 0, Base - 1))
        ELSE LET est == ISqrtIn(a[n] * Base + a[n - 1], 0, Base - 1) + 1
                 x0 == IF (n - 2) % 2 = 0
                       THEN NShiftLeft(NFromInt(est), (n - 2) \div 2)
                       ELSE NShiftLeft(NFromInt(est * 100), (n - 3) \div 2)
             IN  NSqrtFrom(a, x0)

(***************************************************************************)
(* Numbers: [nan, neg, mag], the value being (-1)^neg * mag / Base^FracLimbs*)
(* Zero is never negative, so equal values are equal records.              *)
(***************************************************************************)
NaN == [nan |-> TRUE, neg |-> FALSE, mag |-> << >>]

Mk(neg, mag) == [nan |-> FALSE, neg |-> neg /\ mag # << >>, mag |-> mag]

Zero == Mk(FALSE, << >>)

Reverse(s) == [i \in 1..Len(s) |-> s[Len(s) + 1 - i]]

\* The decimal literal with integer limbs ip and fraction limbs fp, each a
\* group of four digits, most significant first: Num(<<28>>, <<134>>) is 28.0134.
Num(ip, fp) ==
    Mk(FALSE, NTrim([j \in 1..FracLimbs |-> Limb(fp, FracLimbs + 1 - j)] \o Reverse(ip)))

One == Num(<<1>>, << >>)
Two == Num(<<2>>, << >>)

IsZero(x) == ~x.nan /\ x.mag = << >>

\* -1, 0, 1 as x < y, x = y, x > y (both finite)
Cmp(x, y) ==
    IF x.neg # y.neg THEN (IF x.neg THEN -1 ELSE 1)
    ELSE IF x.neg THEN NCmp(y.mag, x.mag) ELSE NCmp(x.mag, y.mag)

\* The relational operators: false whenever an operand is NaN.
Lt(x, y) == ~x.nan /\ ~y.nan /\ Cmp(x, y) < 0
Gt(x, y) == ~x.nan /\ ~y.nan /\ Cmp(x, y) > 0
Le(x, y) == ~x.nan /\ ~y.nan /\ Cmp(x, y) <= 0
Ge(x, y) == ~x.nan /\ ~y.nan /\ Cmp(x, y) >= 0

Neg(x) == IF x.nan THEN NaN ELSE Mk(~x.neg, x.mag)

abs(x) == IF x.nan THEN NaN ELSE Mk(FALSE, x.mag)

Add(x, y) ==
    IF x.nan \/ y.nan THEN NaN
    ELSE IF x.neg = y.neg THEN Mk(x.neg, NAdd(x.mag, y.mag))
    ELSE IF NCmp(x.mag, y.mag) >= 0 THEN Mk(x.neg, NSub(x.mag, y.mag))
    ELSE Mk(y.neg, NSub(y.mag, x.mag))

Sub(x, y) == Add(x, Neg(y))

Mul(x, y) ==
    IF x.nan \/ y.nan THEN NaN
    ELSE Mk(x.neg # y.neg, NShiftRight(NMul(x.mag, y.mag), FracLimbs))

\* The quotient x / y.  A zero divisor gives NaN: the model has no infinities.
Divide(x, y) ==
    IF x.nan \/ y.nan \/ y.mag = << >> THEN NaN
    ELSE Mk(x.neg # y.neg, NDiv(NShiftLeft(x.mag, FracLimbs), y.mag))

\* x * k and x / k for an integer 1 <= k <= 200000
MulInt(x, k) == IF x.nan THEN NaN ELSE Mk(x.neg, NMulSmall(x.mag, k))
DivInt(x, k) == IF x.nan THEN NaN ELSE Mk(x.neg, NDivSmall(x.mag, k))

(***************************************************************************)
(* Calls.  The division, the Math functions and the methods of the two     *)
(* classes are invoked through Call(f, a, fresh): f names the callee and a *)
(* is the tuple of its arguments.  Call is defined after its callees.      *)
(***************************************************************************)
RECURSIVE Call(_, _, _)

Div(x, y) == Call("/", <<x, y>>, FALSE)
sqrt(x) == Call("Math.sqrt", <<x>>, FALSE)
exp(x) == Call("Math.exp", <<x>>, FALSE)
log(x) == Call("Math.log", <<x>>, FALSE)
pow(x, y) == Call("Math.pow", <<x, y>>, FALSE)
sin(x) == Call("Math.sin", <<x>>, FALSE)
cos(x) == Call("Math.cos", <<x>>, FALSE)
atan(x) == Call("Math.atan", <<x>>, FALSE)
atan2(y, x) == Call("Math.atan2", <<y, x>>, FALSE)

\* Math.sqrt: NaN below zero.
Math_sqrt(x) ==
    IF x.nan \/ x.neg THEN NaN
    ELSE Mk(FALSE, NSqrt(NShiftLeft(x.mag, FracLimbs)))

\* x^0/0! + x^1/1! + ... from the term t = x^(n-1)/(n-1)!, until t vanishes.
RECURSIVE ExpTerms(_, _, _)
ExpTerms(x, t, n) ==
    IF IsZero(t) THEN Zero ELSE Add(t, ExpTerms(x, DivInt(Mul(t, x), n), n + 1))

\* Math.exp: halve the argument down to |x| <= 1/2, sum the series, square back.
Math_exp(x) ==
    IF x.nan THEN NaN
    ELSE IF Gt(abs(x), DivInt(One, 2))
         THEN LET h == exp(DivInt(x, 2)) IN Mul(h, h)
         ELSE ExpTerms(x, One, 1)

\* p/d + p*w/(d+2) + p*w^2/(d+4) + ..., until the power p vanishes.
RECURSIVE OddSeries(_, _, _)
OddSeries(p, w, d) ==
    IF IsZero(p) THEN Zero ELSE Add(DivInt(p, d), OddSeries(Mul(p, w), w, d + 2))

\* artanh z = z + z^3/3 + z^5/5 + ... for |z| < 1
Artanh(z) == OddSeries(z, Mul(z, z), 1)

\* arctan z = z - z^3/3 + z^5/5 - ... for |z| < 1
AtanSeries(z) == OddSeries(z, Neg(Mul(z, z)), 1)

\* ln 2 = 2 artanh(1/3)
Ln2Series == MulInt(Artanh(DivInt(One, 3)), 2)

Ln2 == Call("ln 2", << >>, FALSE)

\* Math.log for x > 0: scale x into [1, 2) by powers of two, then
\* ln x = 2 artanh((x - 1)/(x + 1)).
Math_log(x) ==
    IF x.nan \/ x.neg \/ IsZero(x) THEN NaN
    ELSE IF Ge(x, Two) THEN Add(Ln2, log(DivInt(x, 2)))
    ELSE IF Lt(x, One) THEN Sub(log(MulInt(x, 2)), Ln2)
    ELSE MulInt(Artanh(Div(Sub(x, One), Add(x, One))), 2)

\* Math.pow for a base x >= 0: x^y = exp(y ln x), 0^y = 0 for y > 0, x^0 = 1.
Math_pow(x, y) ==
    IF x.nan \/ y.nan \/ x.neg THEN NaN
    ELSE IF IsZero(y) THEN One
    ELSE IF IsZero(x) THEN (IF y.neg THEN NaN ELSE Zero)
    ELSE exp(Mul(y, log(x)))

\* t + t*w/(n(n+1)) + t*w^2/(n(n+1)(n+2)(n+3)) + ..., until the term t vanishes.
RECURSIVE EvenSteps(_, _, _)
EvenSteps(t, w, n) ==
    IF IsZero(t) THEN Zero
    ELSE Add(t, EvenSteps(DivInt(Mul(t, w), n * (n + 1)), w, n + 2))

\* Math.sin and Math.cos by their power series (arguments of a few radians).
Math_sin(x) == IF x.nan THEN NaN ELSE EvenSteps(x, Neg(Mul(x, x)), 2)
Math_cos(x) == IF x.nan THEN NaN ELSE EvenSteps(One, Neg(Mul(x, x)), 1)

\* Machin: pi = 16 arctan(1/5) - 4 arctan(1/239)
Machin == Sub(MulInt(AtanSeries(DivInt(One, 5)), 16), MulInt(AtanSeries(DivInt(One, 239)), 4))

Pi == Call("pi", << >>, FALSE)

\* arctan x = 2 arctan(x / (1 + sqrt(1 + x^2)))
HalfTan(x) == Div(x, Add(One, sqrt(Add(One, Mul(x, x)))))

\* Math.atan: odd, arctan x = pi/2 - arctan(1/x) above 1, and two halvings
\* before the series.
Math_atan(x) ==
    IF x.nan THEN NaN
    ELSE IF x.neg THEN Neg(atan(Neg(x)))
    ELSE IF Gt(x, One) THEN Sub(DivInt(Pi, 2), atan(Div(One, x)))
    ELSE MulInt(AtanSeries(HalfTan(HalfTan(x))), 4)

\* Math.atan2(y, x) for finite arguments
Math_atan2(y, x) ==
    IF x.nan \/ y.nan THEN NaN
    ELSE IF IsZero(x)
         THEN (IF IsZero(y) THEN Zero
               ELSE IF y.neg THEN Neg(DivInt(Pi, 2)) ELSE DivInt(Pi, 2))
    ELSE IF ~x.neg THEN atan(Div(y, x))
    ELSE IF y.neg THEN Sub(atan(Div(y, x)), Pi)
    ELSE Add(atan(Div(y, x)), Pi)

(***************************************************************************)
(* class Atmosphere.  The object is a record of its fields; JavaScript      *)
(* arrays are sequences, read through At with the source's 0-based index.  *)
(***************************************************************************)
At(arr, i) == arr[i + 1]

\* sum of arr[0] .. arr[n]
RECURSIVE SumTo(_, _)
SumTo(arr, n) == IF n = 0 THEN At(arr, 0) ELSE Add(SumTo(arr, n - 1), At(arr, n))

\* [kg/kmol] molecular weight
m_i_table ==
    << Num(<<28>>, <<0134>>),           \*  28.0134   N2
       Num(<<31>>, <<9988>>),           \*  31.9988   O2
       Num(<<39>>, <<9480>>),           \*  39.948    Ar
       Num(<<44>>, <<0099, 5000>>),     \*  44.00995  CO2
       Num(<<20>>, <<1830>>),           \*  20.183    Ne
       Num(<<4>>, <<0026>>),            \*   4.0026   He
       Num(<<83>>, <<8000>>),           \*  83.8      Kr
       Num(<<131>>, <<3000>>),          \* 131.3      Xe
       Num(<<16>>, <<0430, 3000>>),     \*  16.04303  CH4
       Num(<<2>>, <<0159, 4000>>) >>    \*   2.01594  H2

\* [-] fractional volume
f_i_table ==
    << Num(<< >>, <<7808, 4000>>),        \* 0.78084
       Num(<< >>, <<2094, 7600>>),        \* 0.209476
       Num(<< >>, <<0093, 4000>>),        \* 0.00934
       Num(<< >>, <<0003, 1400>>),        \* 0.000314
       Num(<< >>, <<0000, 1818>>),        \* 0.00001818
       Num(<< >>, <<0000, 0524>>),        \* 0.00000524
       Num(<< >>, <<0000, 0114>>),        \* 0.00000114
       Num(<< >>, <<0000, 0008, 7000>>),  \* 0.000000087
       Num(<< >>, <<0000, 0200>>),        \* 0.000002
       Num(<< >>, <<0000, 0050>>) >>      \* 0.0000005

\* [m] altitude values
h_b_table ==
    << Num(<<1, 1000>>, << >>),         \* 11000.0
       Num(<<2, 0000>>, << >>),         \* 20000.0
       Num(<<3, 2000>>, << >>),         \* 32000.0
       Num(<<4, 7000>>, << >>),         \* 47000.0
       Num(<<5, 1000>>, << >>),         \* 51000.0
       Num(<<7, 1000>>, << >>),         \* 71000.0
       Num(<<8, 4852>>, << >>) >>       \* 84852.0

\* [Pa] pressure values
p_b_table ==
    << Num(<<10, 1325>>, << >>),        \* 101325.0
       Num(<<2, 2632>>, << >>),         \*  22632.0
       Num(<<5474>>, <<8000>>),         \*   5474.8
       Num(<<868>>, <<0100>>),          \*    868.01
       Num(<<110>>, <<9000>>),          \*    110.9
       Num(<<66>>, <<9380>>),           \*     66.938
       Num(<<3>>, <<9564>>) >>          \*      3.9564

\* [K] temperature values
t_b_table ==
    << Num(<<288>>, <<1500>>),          \* 288.15
       Num(<<216>>, <<6500>>),          \* 216.65
       Num(<<216>>, <<6500>>),          \* 216.65
       Num(<<228>>, <<6500>>),          \* 228.65
       Num(<<270>>, <<6500>>),          \* 270.65
       Num(<<270>>, <<6500>>),          \* 270.65
       Num(<<214>>, <<6500>>) >>        \* 214.65

\* [K/m] temperature gradients
l_b_table ==
    << Neg(Num(<< >>, <<0065>>)),       \* -6.5e-3
       Zero,                            \*  0.0
       Num(<< >>, <<0010>>),            \*  1.0e-3
       Num(<< >>, <<0028>>),            \*  2.8e-3
       Zero,                            \*  0.0
       Neg(Num(<< >>, <<0028>>)),       \* -2.8e-3
       Neg(Num(<< >>, <<0020>>)) >>     \* -2.0e-3

\* sum of a[0]*b[0] .. a[n]*b[n]
RECURSIVE DotTo(_, _, _)
DotTo(a, b, n) ==
    IF n = 0 THEN Mul(At(a, 0), At(b, 0))
    ELSE Add(DotTo(a, b, n - 1), Mul(At(a, n), At(b, n)))

\* new Atmosphere()
Atmosphere ==
    [ m_i   |-> m_i_table,
      f_i   |-> f_i_table,
      m     |-> Div(DotTo(m_i_table, f_i_table, 9), SumTo(f_i_table, 9)),
      r     |-> Num(<<8314>>, <<3200>>),            \* 8.31432e3
      s     |-> Num(<<110>>, << >>),                \* 110.0
      beta  |-> Num(<< >>, <<0000, 0145, 8000>>),   \* 1.458e-6
      gamma |-> Num(<<1>>, <<4000>>),               \* 1.4
      wgs_g |-> Num(<<9>>, <<8066, 5000>>),         \* 9.80665
      t_0   |-> Num(<<288>>, <<1500>>),             \* 288.15
      p_0   |-> Num(<<10, 1325>>, << >>),           \* 101325.0
      rho_0 |-> Num(<<1>>, <<2250>>),               \* 1.225
      temp  |-> Zero,
      press |-> Zero,
      dens  |-> Zero,
      sound |-> Zero,
      visc  |-> Zero,
      kinViscosity |-> Zero,
      valid |-> FALSE,
      h_b   |-> h_b_table,
      p_b   |-> p_b_table,
      t_b   |-> t_b_table,
      l_b   |-> l_b_table ]

\* A reset that clears the flag and leaves the six numbers, and one that
\* clears the six numbers and leaves the flag: what update would do with
\* either in place of its reset is what C4 and C5 exclude.
reset_flag_only(self) == [self EXCEPT !.valid = FALSE]

reset_outputs_only(self) ==
    [self EXCEPT !.temp = Zero, !.press = Zero, !.dens = Zero, !.sound = Zero,
                 !.visc = Zero, !.kinViscosity = Zero]

\* update(), the reset of the outputs.
reset(self) ==
    [self EXCEPT !.temp = Zero, !.press = Zero, !.dens = Zero, !.sound = Zero,
                 !.visc = Zero, !.kinViscosity = Zero, !.valid = FALSE]

\* The loop with alt <= h_b[i] for its test: a boundary altitude would stay
\* in the layer below it.
RECURSIVE scan_inclusive(_, _, _, _)
scan_inclusive(self, alt, i, seed) ==
    IF ~(i < 7) THEN seed
    ELSE IF Le(alt, At(self.h_b, i))
         THEN [hb |-> At(self.h_b, i - 1), pb |-> At(self.p_b, i),
               tb |-> At(self.t_b, i), lb |-> At(self.l_b, i),
               valid |-> TRUE, via |-> "scan", i |-> i]
         ELSE scan_inclusive(self, alt, i + 1, seed)

\* update(), the for loop from index i on: the locals hb, pb, tb, lb and
\* this.valid when it ends (seed: their values before the loop).
RECURSIVE scan(_, _, _, _)
scan(self, alt, i, seed) ==
    IF ~(i < 7) THEN seed
    ELSE IF Lt(alt, At(self.h_b, i))
         THEN [hb |-> At(self.h_b, i - 1), pb |-> At(self.p_b, i),
               tb |-> At(self.t_b, i), lb |-> At(self.l_b, i),
               valid |-> TRUE, via |-> "scan", i |-> i]
         ELSE scan(self, alt, i + 1, seed)

\* The layer resolution with alt <= h_b[0] for its first test: 11000 m would
\* belong to the troposphere.
layer_inclusive(self, alt) ==
    IF Le(alt, At(self.h_b, 0))
    THEN [hb |-> Zero, pb |-> At(self.p_b, 0), tb |-> self.t_0,
          lb |-> Div(Neg(Sub(self.t_0, At(self.t_b, 1))), At(self.h_b, 0)),
          valid |-> TRUE, via |-> "troposphere", i |-> 0]
    ELSE scan(self, alt, 1,
              [hb |-> At(self.h_b, 5), pb |-> At(self.p_b, 6),
               tb |-> At(self.t_b, 6), lb |-> Zero,
               valid |-> self.valid, via |-> "seed", i |-> 7])

\* update(), the layer resolution: hb, pb, tb, lb and this.valid after it;
\* via and i record the branch that set them.
layer(self, alt) ==
    LET seed == [hb |-> At(self.h_b, 5), pb |-> At(self.p_b, 6),
                 tb |-> At(self.t_b, 6), lb |-> Zero,
                 valid |-> self.valid, via |-> "seed", i |-> 7]
    IN  IF Lt(alt, At(self.h_b, 0))
        THEN [hb |-> Zero, pb |-> At(self.p_b, 0), tb |-> self.t_0,
              lb |-> Div(Neg(Sub(self.t_0, At(self.t_b, 1))), At(self.h_b, 0)),
              valid |-> TRUE, via |-> "troposphere", i |-> 0]
        ELSE scan(self, alt, 1, seed)

\* Branch tests with another threshold (1.0e-2) and with none: the first
\* sends the layers of gradient 1.0e-3 to the exponential formula, the second
\* sends the layers of gradient zero to the power formula.
isothermal_coarse(lb) == Lt(abs(lb), Num(<< >>, <<0100>>))

isothermal_never(lb) == FALSE

\* update(), the branch on |lb| that picks the pressure formula
isothermal(lb) == Lt(abs(lb), Num(<< >>, <<0000, 0100>>))   \* 1.0e-6

\* update(), the statements under if ( this.valid ), one definition each: the
\* object after the statement, lay holding the locals hb, pb, tb, lb.
update_temp(self, lay, delta_h) ==
    [self EXCEPT !.temp = Add(lay.tb, Mul(lay.lb, delta_h))]

update_press(self, lay, delta_h) ==
    [self EXCEPT !.press =
        IF isothermal(lay.lb)
        THEN Mul(lay.pb, exp(Div(Neg(Mul(Mul(self.wgs_g, self.m), delta_h)),
                                 Mul(self.r, lay.tb))))
        ELSE Mul(lay.pb, pow(Div(lay.tb, self.temp),
                             Div(Mul(self.wgs_g, self.m), Mul(self.r, lay.lb))))]

\* The density without the molecular weight m.
update_dens_no_m(self) ==
    [self EXCEPT !.dens = Div(self.press, Mul(self.r, self.temp))]

update_dens(self) ==
    [self EXCEPT !.dens = Div(Mul(self.press, self.m), Mul(self.r, self.temp))]

update_sound(self) ==
    [self EXCEPT !.sound = sqrt(Div(Mul(Mul(self.gamma, self.r), self.temp), self.m))]

update_visc(self) ==
    [self EXCEPT !.visc = Div(Mul(self.beta, pow(self.temp, Div(Num(<<3>>, << >>), Two))),
                              Add(self.temp, self.s))]

update_kinViscosity(self) ==
    [self EXCEPT !.kinViscosity = Div(self.visc, self.dens)]

\* update(), what the call leaves when it does not return early: the object
\* and the locals (NaN for a local never assigned); branch is the pressure
\* formula taken.
locals(obj, alt, lay, delta_h, branch) ==
    [obj |-> obj, alt |-> alt, returned |-> FALSE,
     hb |-> lay.hb, pb |-> lay.pb, tb |-> lay.tb, lb |-> lay.lb,
     via |-> lay.via, i |-> lay.i, delta_h |-> delta_h, branch |-> branch]

\* update(), the block under if ( this.valid )
evaluate(self, alt, lay, delta_h) ==
    locals(update_kinViscosity(update_visc(update_sound(update_dens(
               update_press(update_temp(self, lay, delta_h), lay, delta_h))))),
           alt, lay, delta_h, IF isothermal(lay.lb) THEN "exp" ELSE "pow")

\* update(), from the end of the layer resolution on: this.valid as the
\* resolution left it, then if ( this.valid ).
resolved(self, alt, lay) ==
    IF lay.valid
    THEN evaluate([self EXCEPT !.valid = lay.valid], alt, lay, Sub(alt, lay.hb))
    ELSE locals([self EXCEPT !.valid = lay.valid], alt, lay, NaN, "none")

\* update() after the reset, on the object self: the object it leaves and
\* the locals of the call.
body(self, alt) ==
    IF Gt(alt, At(self.h_b, 6))
    THEN [obj |-> self, alt |-> alt, returned |-> TRUE,
          hb |-> NaN, pb |-> NaN, tb |-> NaN, lb |-> NaN,
          via |-> "none", i |-> 0, delta_h |-> NaN, branch |-> "none"]
    ELSE resolved(self, alt, layer(self, alt))

(***************************************************************************)
(* class WGS84.  A method yields the object it leaves and the array it     *)
(* returns.                                                                *)
(***************************************************************************)
wgs_a == Num(<<637, 8137>>, << >>)            \* 6378137.0
wgs_b == Num(<<635, 6752>>, <<3142>>)         \* 6356752.3142

\* new WGS84()
WGS84 ==
    [ a   |-> wgs_a,
      f   |-> Div(One, Num(<<298>>, <<2572, 2356, 3000>>)),  \* 1.0 / 298.257223563
      b   |-> wgs_b,
      a2  |-> Mul(wgs_a, wgs_a),
      b2  |-> Mul(wgs_b, wgs_b),
      e2  |-> Num(<< >>, <<0066, 9437, 9990, 1400>>),        \* 6.6943799901400e-3
      ep2 |-> Num(<< >>, <<0067, 3949, 6742, 2800>>) ]       \* 6.7394967422800e-3

geo2wgs(self, lat, lon, alt) ==
    LET sinLat == sin(lat)
        cosLat == cos(lat)
        sinLon == sin(lon)
        cosLon == cos(lon)
        n == Div(self.a, sqrt(Sub(One, Mul(Mul(self.e2, sinLat), sinLat))))
        x == Mul(Mul(Add(n, alt), cosLat), cosLon)
        y == Mul(Mul(Add(n, alt), cosLat), sinLon)
        z == Mul(Add(Mul(n, Div(self.b2, self.a2)), alt), sinLat)
    IN  [self |-> self, ret |-> <<x, y, z>>]

\* wgs2geo(), one definition per statement: v holds the arguments and the
\* locals assigned so far, and the statement adds its own.
wgs2geo_z2(self, v) == v @@ [z2 |-> Mul(v.z, v.z)]

wgs2geo_r(self, v) == v @@ [r |-> sqrt(Add(Mul(v.x, v.x), Mul(v.y, v.y)))]

wgs2geo_r2(self, v) == v @@ [r2 |-> Mul(v.r, v.r)]

wgs2geo_e2(self, v) == v @@ [e2 |-> Sub(self.a2, self.b2)]

wgs2geo_f(self, v) == v @@ [f |-> Mul(Mul(Num(<<54>>, << >>), self.b2), v.z2)]

wgs2geo_g(self, v) ==
    v @@ [g |-> Sub(Add(v.r2, Mul(Sub(One, self.e2), v.z2)), Mul(self.e2, v.e2))]

wgs2geo_c(self, v) ==
    v @@ [c |-> Div(Mul(Mul(Mul(self.e2, self.e2), v.f), v.r2),
                    Mul(Mul(v.g, v.g), v.g))]

wgs2geo_s(self, v) ==
    v @@ [s |-> pow(Add(Add(One, v.c), sqrt(Add(Mul(v.c, v.c), Mul(Two, v.c)))),
                    Div(One, Num(<<3>>, << >>)))]

wgs2geo_p0(self, v) == v @@ [p0 |-> Add(Add(v.s, Div(One, v.s)), One)]

wgs2geo_p(self, v) ==
    v @@ [p |-> Div(v.f, Mul(Mul(Mul(Mul(Num(<<3>>, << >>), v.p0), v.p0), v.g), v.g))]

wgs2geo_q(self, v) ==
    v @@ [q |-> sqrt(Add(One, Mul(Mul(Two, Mul(self.e2, self.e2)), v.p)))]

wgs2geo_r0(self, v) ==
    LET half == Num(<< >>, <<5000>>)             \* 0.5
    IN  v @@ [r0 |-> Add(Div(Neg(Mul(Mul(v.p, self.e2), v.r)), Add(One, v.q)),
                         sqrt(Sub(Sub(Mul(Mul(half, self.a2), Add(One, Div(One, v.q))),
                                      Div(Mul(Mul(v.p, Sub(One, self.e2)), v.z2),
                                          Add(v.q, Mul(v.q, v.q)))),
                                  Mul(Mul(half, v.p), v.r2))))]

wgs2geo_uv(self, v) == v @@ [uv |-> Sub(v.r, Mul(self.e2, v.r0))]

wgs2geo_u(self, v) == v @@ [u |-> sqrt(Add(Mul(v.uv, v.uv), v.z2))]

wgs2geo_v(self, v) ==
    v @@ [v |-> sqrt(Add(Mul(v.uv, v.uv), Mul(Sub(One, self.e2), v.z2)))]

wgs2geo_z0(self, v) == v @@ [z0 |-> Div(Mul(self.b2, v.z), Mul(self.a, v.v))]

wgs2geo_alt(self, v) ==
    v @@ [alt |-> Mul(v.u, Sub(One, Div(self.b2, Mul(self.a, v.v))))]

wgs2geo_lat(self, v) == v @@ [lat |-> atan(Div(Add(v.z, Mul(self.ep2, v.z0)), v.r))]

wgs2geo_lon(self, v) == v @@ [lon |-> atan2(v.y, v.x)]

\* The return of a wgs2geo whose f and e2 were fields of the object and not
\* locals.
wgs2geo_return_fields(self, v) ==
    [self |-> [self EXCEPT !.f = v.f, !.e2 = v.e2], ret |-> <<v.lat, v.lon, v.alt>>]

wgs2geo_return(self, v) == [self |-> self, ret |-> <<v.lat, v.lon, v.alt>>]

wgs2geo(self, x, y, z) ==
    wgs2geo_return(self,
    wgs2geo_lon(self, wgs2geo_lat(self, wgs2geo_alt(self, wgs2geo_z0(self,
    wgs2geo_v(self, wgs2geo_u(self, wgs2geo_uv(self, wgs2geo_r0(self,
    wgs2geo_q(self, wgs2geo_p(self, wgs2geo_p0(self, wgs2geo_s(self,
    wgs2geo_c(self, wgs2geo_g(self, wgs2geo_f(self, wgs2geo_e2(self,
    wgs2geo_r2(self, wgs2geo_r(self, wgs2geo_z2(self,
        [x |-> x, y |-> y, z |-> z]))))))))))))))))))))

(***************************************************************************)
(* Inputs.                                                                 *)
(***************************************************************************)
\* The altitude grid runs from -BelowSteps to TopSteps steps of 2 km.
BelowSteps == 1
TopSteps == 45

FromInt(k) == Mk(k < 0, NShiftLeft(NFromInt(IF k < 0 THEN -k ELSE k), FracLimbs))

Millimetre == Num(<< >>, <<0010>>)      \* 0.001

\* Arguments of update: the grid, every layer boundary and the altitudes one
\* millimetre below and above it, and NaN (parseFloat of an empty field).
Altitudes ==
    {FromInt(2000 * k) : k \in (-BelowSteps)..TopSteps}
    \cup {At(h_b_table, k) : k \in 0..6}
    \cup {Sub(At(h_b_table, k), Millimetre) : k \in 0..6}
    \cup {Add(At(h_b_table, k), Millimetre) : k \in 0..6}
    \cup {NaN}

MathPI == Num(<<3>>, <<1415, 9265, 3589, 7930>>)    \* Math.PI, 3.141592653589793

\* Arguments of geo2wgs: latitudes up to 1.569 rad (89.897 degrees),
\* longitudes from -180 to 180 degrees, altitudes from 0 to 100 km.
Latitudes == { Neg(Num(<<1>>, <<5690>>)), Zero, Num(<< >>, <<5000>>) }
Longitudes == { Neg(MathPI), Num(<<2>>, << >>) }
Heights == { Zero, Num(<<10, 0000>>, << >>) }
Geodetics == { <<lat, lon, alt>> : lat \in Latitudes, lon \in Longitudes, alt \in Heights }

\* Arguments of wgs2geo typed in directly.
Cartesians ==
    { <<Num(<<400, 0000>>, << >>), Num(<<300, 0000>>, << >>), Num(<<400, 0000>>, << >>)>>,
      <<Neg(wgs_a), Zero, Zero>> }

(***************************************************************************)
(* A method's result is a function of the object it is called on and of    *)
(* its arguments.  The tables hold it for the objects the constructors     *)
(* build and the arguments above, computed afresh; a call with fresh unset *)
(* reads the table where it has the entry and computes the result where it *)
(* has not.                                                                *)
(***************************************************************************)
updated == [a \in {<<Atmosphere, alt>> : alt \in Altitudes} |-> Call("body", a, TRUE)]

geo2wgsTable ==
    [a \in {<<WGS84, g[1], g[2], g[3]>> : g \in Geodetics} |-> Call("geo2wgs", a, TRUE)]

\* Arguments of wgs2geo: the typed-in ones and every result of geo2wgs.
Points == Cartesians \cup {geo2wgsTable[a].ret : a \in DOMAIN geo2wgsTable}

wgs2geoTable ==
    [a \in {<<WGS84, c[1], c[2], c[3]>> : c \in Points} |-> Call("wgs2geo", a, TRUE)]

Call(f, a, fresh) ==
    CASE f = "/" -> Divide(a[1], a[2])
      [] f = "Math.sqrt" -> Math_sqrt(a[1])
      [] f = "Math.exp" -> Math_exp(a[1])
      [] f = "Math.log" -> Math_log(a[1])
      [] f = "Math.pow" -> Math_pow(a[1], a[2])
      [] f = "Math.sin" -> Math_sin(a[1])
      [] f = "Math.cos" -> Math_cos(a[1])
      [] f = "Math.atan" -> Math_atan(a[1])
      [] f = "Math.atan2" -> Math_atan2(a[1], a[2])
      [] f = "ln 2" -> Ln2Series
      [] f = "pi" -> Machin
      [] f = "body" ->
            IF ~fresh /\ a \in DOMAIN updated THEN updated[a] ELSE body(a[1], a[2])
      [] f = "geo2wgs" ->
            IF ~fresh /\ a \in DOMAIN geo2wgsTable THEN geo2wgsTable[a]
            ELSE geo2wgs(a[1], a[2], a[3], a[4])
      [] f = "wgs2geo" ->
            IF ~fresh /\ a \in DOMAIN wgs2geoTable THEN wgs2geoTable[a]
            ELSE wgs2geo(a[1], a[2], a[3], a[4])

\* atmos.update( alt ): the reset, then the rest of the method
update(self, alt) == Call("body", <<reset(self), alt>>, FALSE)

(***************************************************************************)
(* State.  page is the calculator page that is open; atmos is its          *)
(* Atmosphere object and call the locals of the last update call on it,    *)
(* with wasValid the object's valid flag when that call began; wgs is the  *)
(* WGS84 object and conv the last conversion made with it (origin: the     *)
(* geodetic coordinates a converted point came from).                      *)
(***************************************************************************)
VARIABLES page, atmos, call, wgs, conv

vars == <<page, atmos, call, wgs, conv>>

NoTriple == <<NaN, NaN, NaN>>

NoCall ==
    [alt |-> NaN, returned |-> FALSE, hb |-> NaN, pb |-> NaN, tb |-> NaN,
     lb |-> NaN, via |-> "new", i |-> 0, delta_h |-> NaN, branch |-> "none",
     wasValid |-> FALSE]

NoConv == [op |-> "new", arg |-> NoTriple, ret |-> NoTriple, origin |-> NoTriple]

Init ==
    /\ page \in {"atmos", "wgs84"}
    /\ atmos = Atmosphere
    /\ call = NoCall
    /\ wgs = WGS84
    /\ conv = NoConv

\* Opening a page builds its objects anew.
Load(p) ==
    /\ page' = p
    /\ atmos' = Atmosphere
    /\ call' = NoCall
    /\ wgs' = WGS84
    /\ conv' = NoConv

\* atmos.update( alt )
Update(alt) ==
    /\ page = "atmos"
    /\ \E u \in {update(atmos, alt)} :
           /\ atmos' = u.obj
           /\ call' = [alt |-> u.alt, returned |-> u.returned, hb |-> u.hb,
                       pb |-> u.pb, tb |-> u.tb, lb |-> u.lb, via |-> u.via,
                       i |-> u.i, delta_h |-> u.delta_h, branch |-> u.branch,
                       wasValid |-> atmos.valid]
    /\ UNCHANGED <<page, wgs, conv>>

\* wgs.geo2wgs( lat, lon, alt )
Geo2Wgs(g) ==
    /\ page = "wgs84"
    /\ \E c \in {Call("geo2wgs", <<wgs, g[1], g[2], g[3]>>, FALSE)} :
           /\ wgs' = c.self
           /\ conv' = [op |-> "geo2wgs", arg |-> g, ret |-> c.ret, origin |-> NoTriple]
    /\ UNCHANGED <<page, atmos, call>>

\* wgs.wgs2geo( x, y, z ) of typed-in coordinates
Wgs2Geo(c) ==
    /\ page = "wgs84"
    /\ \E d \in {Call("wgs2geo", <<wgs, c[1], c[2], c[3]>>, FALSE)} :
           /\ wgs' = d.self
           /\ conv' = [op |-> "wgs2geo", arg |-> c, ret |-> d.ret, origin |-> NoTriple]
    /\ UNCHANGED <<page, atmos, call>>

\* wgs.wgs2geo( x, y, z ) of the coordinates geo2wgs has just returned
Wgs2GeoBack ==
    /\ page = "wgs84"
    /\ conv.op = "geo2wgs"
    /\ \E d \in {Call("wgs2geo", <<wgs, conv.ret[1], conv.ret[2], conv.ret[3]>>, FALSE)} :
           /\ wgs' = d.self
           /\ conv' = [op |-> "wgs2geo", arg |-> conv.ret, ret |-> d.ret,
                       origin |-> conv.arg]
    /\ UNCHANGED <<page, atmos, call>>

Next ==
    \/ \E p \in {"atmos", "wgs84"} : Load(p)
    \/ \E alt \in Altitudes : Update(alt)
    \/ \E g \in Geodetics : Geo2Wgs(g)
    \/ \E c \in Cartesians : Wgs2Geo(c)
    \/ Wgs2GeoBack

Spec == Init /\ [][Next]_vars

(***************************************************************************)
(* IEEE 754 binary64, the arithmetic JavaScript Numbers really have: a     *)
(* finite non-zero double is [nan, neg, m, sh] with the value              *)
(* (-1)^neg * m / 2^sh and 2^52 <= m < 2^53, so equal values are equal     *)
(* records.  Every operation rounds its exact result to the nearest        *)
(* double, ties to the even mantissa.  The values of the temperature       *)
(* profile stay far from overflow and from the subnormal range, which are  *)
(* not modelled.                                                           *)
(***************************************************************************)
\* 2^n as limbs, for n >= 0
RECURSIVE Pow2(_)
Pow2(n) == IF n < 13 THEN <<2 ^ n>> ELSE NMulSmall(Pow2(n - 13), 2 ^ 13)

Mantissa52 == Pow2(52)
Mantissa53 == Pow2(53)

fNaN == [nan |-> TRUE, neg |-> FALSE, m |-> << >>, sh |-> 0]

fZero == [nan |-> FALSE, neg |-> FALSE, m |-> << >>, sh |-> 0]

\* The double nearest to (p / q) / 2^s once 2^52 <= p / q < 2^53.
fNearest(neg, p, q, s) ==
    LET m == NDiv(p, q)
        r2 == NMulSmall(NSub(p, NMul(m, q)), 2)
        up == NCmp(r2, q) > 0 \/ (NCmp(r2, q) = 0 /\ m[1] % 2 = 1)
        n == IF up THEN NAdd(m, <<1>>) ELSE m
    IN  IF n = Mantissa53
        THEN [nan |-> FALSE, neg |-> neg, m |-> Mantissa52, sh |-> s - 1]
        ELSE [nan |-> FALSE, neg |-> neg, m |-> n, sh |-> s]

\* The double nearest to (-1)^neg * (p / q) / 2^s, for p # 0: p / q is
\* brought into the mantissa's range first.
RECURSIVE fRound(_, _, _, _)
fRound(neg, p, q, s) ==
    IF NCmp(p, NMul(q, Mantissa53)) >= 0 THEN fRound(neg, p, NMulSmall(q, 2), s - 1)
    ELSE IF NCmp(p, NMul(q, Mantissa52)) < 0 THEN fRound(neg, NMulSmall(p, 2), q, s + 1)
    ELSE fNearest(neg, p, q, s)

\* A decimal literal of the source read as a double.
double(x) ==
    IF x.nan THEN fNaN
    ELSE IF x.mag = << >> THEN fZero
    ELSE fRound(x.neg, x.mag, NShiftLeft(<<1>>, FracLimbs), 0)

\* The decimal value of a double, truncated to the last fraction digit.
decimal(d) ==
    IF d.nan THEN NaN
    ELSE IF d.m = << >> THEN Zero
    ELSE Mk(d.neg, NDiv(NShiftLeft(d.m, FracLimbs), Pow2(d.sh)))

\* m * 2^(to - sh): the mantissa of d in units of 2^-to, for to >= d.sh
fUnits(d, to) == IF d.m = << >> THEN << >> ELSE NMul(d.m, Pow2(to - d.sh))

\* -1, 0, 1 as x < y, x = y, x > y (both finite)
fCmp(x, y) ==
    LET to == IF x.sh > y.sh THEN x.sh ELSE y.sh
        c == NCmp(fUnits(x, to), fUnits(y, to))
    IN  IF x.neg # y.neg THEN (IF x.neg THEN -1 ELSE 1)
        ELSE IF x.neg THEN -c ELSE c

fLt(x, y) == ~x.nan /\ ~y.nan /\ fCmp(x, y) < 0
fGt(x, y) == ~x.nan /\ ~y.nan /\ fCmp(x, y) > 0

fNeg(x) == IF x.nan \/ x.m = << >> THEN x ELSE [x EXCEPT !.neg = ~x.neg]

fAdd(x, y) ==
    IF x.nan \/ y.nan THEN fNaN
    ELSE IF x.m = << >> THEN y
    ELSE IF y.m = << >> THEN x
    ELSE LET to == IF x.sh > y.sh THEN x.sh ELSE y.sh
             a == fUnits(x, to)
             b == fUnits(y, to)
         IN  IF x.neg = y.neg THEN fRound(x.neg, NAdd(a, b), <<1>>, to)
             ELSE IF NCmp(a, b) = 0 THEN fZero
             ELSE IF NCmp(a, b) > 0 THEN fRound(x.neg, NSub(a, b), <<1>>, to)
             ELSE fRound(y.neg, NSub(b, a), <<1>>, to)

fSub(x, y) == fAdd(x, fNeg(y))

fMul(x, y) ==
    IF x.nan \/ y.nan THEN fNaN
    ELSE IF x.m = << >> \/ y.m = << >> THEN fZero
    ELSE fRound(x.neg # y.neg, NMul(x.m, y.m), Mantissa52, x.sh + y.sh - 52)

\* The quotient x / y.  A zero divisor gives NaN: the model has no infinities.
fDiv(x, y) ==
    IF x.nan \/ y.nan \/ y.m = << >> THEN fNaN
    ELSE IF x.m = << >> THEN fZero
    ELSE fRound(x.neg # y.neg, NMul(x.m, Mantissa52), y.m, x.sh - y.sh + 52)

(***************************************************************************)
(* The temperature profile of class Atmosphere in binary64: the fields     *)
(* update reads for this.temp, each literal of the constructor read as a   *)
(* double, and the statements of update that lead to this.temp.  The       *)
(* pressure and the outputs computed from it do not enter this.temp and    *)
(* are left out.                                                           *)
(***************************************************************************)
doubles(arr) == [j \in 1..Len(arr) |-> double(arr[j])]

\* new Atmosphere()
Atmosphere64 ==
    [ t_0   |-> double(Num(<<288>>, <<1500>>)),     \* 288.15
      temp  |-> fZero,
      valid |-> FALSE,
      h_b   |-> doubles(h_b_table),
      p_b   |-> doubles(p_b_table),
      t_b   |-> doubles(t_b_table),
      l_b   |-> doubles(l_b_table) ]

\* update(), the reset of the outputs.
reset64(self) == [self EXCEPT !.temp = fZero, !.valid = FALSE]

\* update(), the for loop from index i on.
RECURSIVE scan64(_, _, _, _)
scan64(self, alt, i, seed) ==
    IF ~(i < 7) THEN seed
    ELSE IF fLt(alt, At(self.h_b, i))
         THEN [hb |-> At(self.h_b, i - 1), pb |-> At(self.p_b, i),
               tb |-> At(self.t_b, i), lb |-> At(self.l_b, i),
               valid |-> TRUE, via |-> "scan", i |-> i]
         ELSE scan64(self, alt, i + 1, seed)

\* update(), the layer resolution.
layer64(self, alt) ==
    IF fLt(alt, At(self.h_b, 0))
    THEN [hb |-> fZero, pb |-> At(self.p_b, 0), tb |-> self.t_0,
          lb |-> fDiv(fNeg(fSub(self.t_0, At(self.t_b, 1))), At(self.h_b, 0)),
          valid |-> TRUE, via |-> "troposphere", i |-> 0]
    ELSE scan64(self, alt, 1,
                [hb |-> At(self.h_b, 5), pb |-> At(self.p_b, 6),
                 tb |-> At(self.t_b, 6), lb |-> fZero,
                 valid |-> self.valid, via |-> "seed", i |-> 7])

\* The temperature without the gradient term.
update_temp64_flat(self, lay, delta_h) == [self EXCEPT !.temp = lay.tb]

\* this.temp = tb + lb * delta_h
update_temp64(self, lay, delta_h) ==
    [self EXCEPT !.temp = fAdd(lay.tb, fMul(lay.lb, delta_h))]

\* update() from the end of the layer resolution on.
resolved64(self, alt, lay) ==
    [obj |-> IF lay.valid
             THEN update_temp64([self EXCEPT !.valid = TRUE], lay, fSub(alt, lay.hb))
             ELSE self,
     alt |-> alt, returned |-> FALSE,
     hb |-> lay.hb, pb |-> lay.pb, tb |-> lay.tb, lb |-> lay.lb,
     via |-> lay.via, i |-> lay.i,
     delta_h |-> IF lay.valid THEN fSub(alt, lay.hb) ELSE fNaN]

\* atmos.update( alt )
update64(self, alt) ==
    IF fGt(alt, At(self.h_b, 6))
    THEN [obj |-> reset64(self), alt |-> alt, returned |-> TRUE,
          hb |-> fNaN, pb |-> fNaN, tb |-> fNaN, lb |-> fNaN,
          via |-> "none", i |-> 0, delta_h |-> fNaN]
    ELSE resolved64(reset64(self), alt, layer64(reset64(self), alt))

\* Arguments of update, as doubles.
Altitudes64 == {double(alt) : alt \in Altitudes}

NoCall64 ==
    [alt |-> fNaN, returned |-> FALSE, hb |-> fNaN, pb |-> fNaN, tb |-> fNaN,
     lb |-> fNaN, via |-> "new", i |-> 0, delta_h |-> fNaN, wasValid |-> FALSE]

\* The atmosphere page with atmos and call holding doubles.
Init64 ==
    /\ page = "atmos"
    /\ atmos = Atmosphere64
    /\ call = NoCall64
    /\ wgs = WGS84
    /\ conv = NoConv

Load64 ==
    /\ atmos' = Atmosphere64
    /\ call' = NoCall64
    /\ UNCHANGED <<page, wgs, conv>>

\* atmos.update( alt ); the flag the call found set is kept in wasValid.
Update64(alt) ==
    /\ \E u \in {update64(atmos, alt)} :
           /\ atmos' = u.obj
           /\ call' = [alt |-> u.alt, returned |-> u.returned, hb |-> u.hb,
                       pb |-> u.pb, tb |-> u.tb, lb |-> u.lb, via |-> u.via,
                       i |-> u.i, delta_h |-> u.delta_h, wasValid |-> atmos.valid]
    /\ UNCHANGED <<page, wgs, conv>>

Next64 ==
    \/ Load64
    \/ \E alt \in Altitudes64 : Update64(alt)

Spec64 == Init64 /\ [][Next64]_vars

(***************************************************************************)
(* Properties.                                                             *)
(***************************************************************************)
\* update has been called on atmos
Called == call.via # "new"

\* the seven output fields of an Atmosphere
Outputs(obj) ==
    <<obj.temp, obj.press, obj.dens, obj.sound, obj.visc, obj.kinViscosity, obj.valid>>

\* the constants of an Atmosphere
Constants(obj) ==
    <<obj.m_i, obj.f_i, obj.m, obj.r, obj.s, obj.beta, obj.gamma, obj.wgs_g,
      obj.t_0, obj.p_0, obj.rho_0, obj.h_b, obj.p_b, obj.t_b, obj.l_b>>

AllZero(obj) ==
    /\ obj.temp = Zero /\ obj.press = Zero /\ obj.dens = Zero
    /\ obj.sound = Zero /\ obj.visc = Zero /\ obj.kinViscosity = Zero

\* |x - y| <= eps
Within(x, y, eps) == Le(abs(Sub(x, y)), eps)

K216_65 == Num(<<216>>, <<6500>>)
K288_15 == Num(<<288>>, <<1500>>)
Pa101325 == Num(<<10, 1325>>, << >>)
M11000 == Num(<<1, 1000>>, << >>)
M20000 == Num(<<2, 0000>>, << >>)
M32000 == Num(<<3, 2000>>, << >>)
M84852 == Num(<<8, 4852>>, << >>)
M90000 == Num(<<9, 0000>>, << >>)
Tiny == Num(<< >>, <<0000, 0100>>)          \* 1.0e-6

\* C1 (as the specification states it): after update(alt) with a finite
\* alt <= 84852, the altitude 84852 itself included, valid is true.
C1_ValidUpToTop ==
    (Called /\ ~call.alt.nan /\ Le(call.alt, M84852)) => atmos.valid

\* C2 (as the specification states it): for every altitude from 20000 m to
\* 32000 m the result is valid, the temperature is 216.65 K, the gradient lb
\* is zero and the pressure comes from the exponential branch.
C2_Isothermal20to32 ==
    (Called /\ Ge(call.alt, M20000) /\ Lt(call.alt, M32000))
        => /\ atmos.valid
           /\ atmos.temp = K216_65
           /\ IsZero(call.lb)
           /\ call.branch = "exp"

InIsothermal(alt) == Ge(alt, M11000) /\ Lt(alt, M20000)

\* C2 (amended): the layer with gradient zero and 216.65 K is the one from
\* 11000 m to 20000 m.  For every altitude in it the result is valid, the
\* temperature is 216.65 K, lb is zero and the pressure comes from the
\* exponential branch; and an update at a higher altitude of the layer after
\* one at a lower altitude of the layer leaves a strictly lower pressure.
\* From 20000 m to 32000 m the gradient is 1.0e-3 K/m and the power branch
\* is taken.
C2_IsothermalLayer ==
    /\ [](Called /\ InIsothermal(call.alt)
            => /\ atmos.valid
               /\ atmos.temp = K216_65
               /\ IsZero(call.lb)
               /\ call.branch = "exp")
    /\ [](Called /\ Ge(call.alt, M20000) /\ Lt(call.alt, M32000)
            => /\ atmos.valid
               /\ call.lb = Num(<< >>, <<0010>>)
               /\ call.branch = "pow"
               /\ atmos.temp = Add(K216_65, Mul(call.lb, Sub(call.alt, M20000))))
    /\ [][(Called /\ InIsothermal(call.alt) /\ InIsothermal(call'.alt)
             /\ Lt(call.alt, call'.alt))
            => Lt(atmos'.press, atmos.press)]_vars

\* C2 witness: an update inside the 11000..20000 m layer right after one at a
\* lower altitude of the layer.
C2_Witness ==
    /\ Called /\ call.wasValid
    /\ call.alt = Num(<<1, 6000>>, << >>)
    /\ call.branch = "exp"
    /\ Lt(atmos.press, At(atmos.p_b, 1))

\* the smallest i in 1..6 with alt < h_b[i]
FirstAbove(obj, alt) ==
    CHOOSE i \in 1..6 :
        /\ Lt(alt, At(obj.h_b, i))
        /\ \A j \in 1..(i - 1) : ~Lt(alt, At(obj.h_b, j))

\* C3: for h_b[0] <= alt < h_b[6] the scan takes the smallest i in 1..6 with
\* alt < h_b[i] and uses hb = h_b[i-1], pb = p_b[i], tb = t_b[i], lb = l_b[i],
\* so h_b[i-1] <= alt < h_b[i], and alt = h_b[k] (k = 0..5) goes to layer
\* k + 1; for alt < h_b[0] it uses hb = 0, pb = p_b[0], tb = t_0 and
\* lb = -(t_0 - t_b[1]) / h_b[0].
C3_LayerResolution ==
    /\ (Called /\ Ge(call.alt, At(atmos.h_b, 0)) /\ Lt(call.alt, At(atmos.h_b, 6)))
          => /\ call.via = "scan"
             /\ call.i = FirstAbove(atmos, call.alt)
             /\ call.hb = At(atmos.h_b, call.i - 1)
             /\ call.pb = At(atmos.p_b, call.i)
             /\ call.tb = At(atmos.t_b, call.i)
             /\ call.lb = At(atmos.l_b, call.i)
             /\ Le(call.hb, call.alt) /\ Lt(call.alt, At(atmos.h_b, call.i))
             /\ \A k \in 0..5 : call.alt = At(atmos.h_b, k) => call.i = k + 1
    /\ (Called /\ Lt(call.alt, At(atmos.h_b, 0)))
          => /\ call.via = "troposphere"
             /\ call.hb = Zero
             /\ call.pb = At(atmos.p_b, 0)
             /\ call.tb = atmos.t_0
             /\ call.lb = Div(Neg(Sub(atmos.t_0, At(atmos.t_b, 1))), At(atmos.h_b, 0))

\* C3 witness: an update at the boundary 32000 m = h_b[2], resolved by the
\* scan to layer 3.
C3_Witness == Called /\ call.alt = M32000 /\ call.via = "scan" /\ call.i = 3

\* C4: in every reachable state valid = false implies the six numeric
\* outputs are 0, and after update(alt) with alt > 84852 valid is false.
C4_InvalidIsZero ==
    /\ ~atmos.valid => AllZero(atmos)
    /\ (Called /\ Gt(call.alt, M84852)) => (~atmos.valid /\ call.returned)

\* C4 witness: update(90000) on an object that held a valid evaluation.
C4_Witness ==
    /\ Called /\ call.wasValid /\ call.alt = M90000
    /\ ~atmos.valid /\ AllZero(atmos)

\* C5: after any sequence of update calls the seven outputs equal those of a
\* new Atmosphere after the single call update(alt) with the last altitude.
C5_NoCarryOver ==
    Called => Outputs(atmos) = Outputs(update(Atmosphere, call.alt).obj)

\* C5 witness: a call that leaves the object invalid, made on an object that
\* held the outputs of an earlier valid call.
C5_Witness == Called /\ call.wasValid /\ ~atmos.valid /\ call.alt = M84852

\* C6: at every boundary altitude h_b[k], k = 0..5, the result is valid,
\* delta_h is 0, the scan resolved the layer with tb = t_b[k+1], and the
\* temperature is t_b[k+1]; at 11000 m that is 216.65 K.
C6_Boundaries ==
    /\ \A k \in 0..5 :
          (Called /\ call.alt = At(atmos.h_b, k))
             => /\ atmos.valid
                /\ call.via = "scan"
                /\ call.tb = At(atmos.t_b, k + 1)
                /\ call.delta_h = Zero
                /\ atmos.temp = At(atmos.t_b, k + 1)
    /\ (Called /\ call.alt = M11000)
          => (atmos.valid /\ call.tb = At(atmos.t_b, 1) /\ atmos.temp = K216_65)

\* C6 witness: an update at 11000 m.
C6_Witness == Called /\ call.alt = M11000 /\ atmos.valid /\ call.delta_h = Zero

\* C7 (as the specification states it): at 0 m the result is valid with
\* temperature 288.15 K, pressure 101325 Pa and density equal to 1.225 kg/m^3.
C7_SeaLevelStandard ==
    (Called /\ call.alt = Zero)
        => /\ atmos.valid
           /\ atmos.temp = K288_15
           /\ atmos.press = Pa101325
           /\ atmos.dens = Num(<<1>>, <<2250>>)

\* C7 (amended): at 0 m the result is valid with temperature 288.15 K (t_0)
\* and pressure 101325 Pa (p_b[0]); the density press * m / (r * temp) is
\* 1.2250037 kg/m^3 to seven decimals, within 1e-5 of rho_0 = 1.225 but not
\* equal to it.
C7_SeaLevel ==
    (Called /\ call.alt = Zero)
        => /\ atmos.valid
           /\ atmos.temp = K288_15 /\ atmos.temp = atmos.t_0
           /\ atmos.press = Pa101325 /\ atmos.press = At(atmos.p_b, 0)
           /\ atmos.dens = Div(Mul(atmos.press, atmos.m), Mul(atmos.r, atmos.temp))
           /\ Gt(atmos.dens, Num(<<1>>, <<2250, 0370>>))
           /\ Lt(atmos.dens, Num(<<1>>, <<2250, 0380>>))
           /\ Within(atmos.dens, atmos.rho_0, Num(<< >>, <<0000, 1000>>))
           /\ atmos.dens # atmos.rho_0

\* C7 witness: an update at 0 m.
C7_Witness == Called /\ call.alt = Zero /\ atmos.valid /\ call.via = "troposphere"

\* C8: no call changes a constant: atmos keeps the fifteen constants of a new
\* Atmosphere, and wgs keeps a, f, b, a2, b2, e2 and ep2 of a new WGS84.
C8_ConstantsKept ==
    /\ Constants(atmos) = Constants(Atmosphere)
    /\ wgs = WGS84

\* C8 witness: geo2wgs and then wgs2geo (with its locals f and e2) have run.
C8_Witness ==
    /\ conv.op = "wgs2geo" /\ conv.origin # NoTriple
    /\ ~conv.ret[1].nan /\ ~conv.ret[3].nan

\* C9 (as the specification states it): wgs2geo of geo2wgs(lat, lon, alt)
\* returns lat and lon within 1e-8 rad and alt within 1e-6 m of the original.
C9_RoundTrip ==
    (conv.op = "wgs2geo" /\ conv.origin # NoTriple)
        => /\ Within(conv.ret[1], conv.origin[1], Num(<< >>, <<0000, 0001>>))
           /\ Within(conv.ret[2], conv.origin[2], Num(<< >>, <<0000, 0001>>))
           /\ Within(conv.ret[3], conv.origin[3], Tiny)

\* C10: in a valid result the power branch was taken exactly when
\* |lb| >= 1e-6 and the exponential branch exactly when |lb| < 1e-6, the
\* temperature is strictly positive, and no divisor of the evaluation is 0:
\* r * tb (exponential branch), r * lb and temp (power branch), r * temp, m,
\* temp + s and dens.
C10_NoZeroDivisor ==
    (Called /\ atmos.valid)
        => /\ call.branch = "pow" <=> Ge(abs(call.lb), Tiny)
           /\ call.branch = "exp" <=> Lt(abs(call.lb), Tiny)
           /\ Gt(atmos.temp, Zero)
           /\ call.branch = "exp" => ~IsZero(Mul(atmos.r, call.tb))
           /\ call.branch = "pow" => ~IsZero(Mul(atmos.r, call.lb))
           /\ ~IsZero(Mul(atmos.r, atmos.temp))
           /\ ~IsZero(atmos.m)
           /\ ~IsZero(Add(atmos.temp, atmos.s))
           /\ ~IsZero(atmos.dens)
           /\ \A k \in 1..6 : ~Outputs(atmos)[k].nan

\* C10 witness: a valid result below sea level, from the power branch.
C10_Witness ==
    /\ Called /\ atmos.valid /\ call.branch = "pow"
    /\ call.alt = Neg(Num(<<2000>>, << >>))

\* The temperature the formula of update gives at the upper boundary
\* h_b[call.i] of the layer the last call resolved, from the hb, tb and lb
\* that call resolved.
AtUpperBoundary ==
    update_temp64(atmos, call, fSub(At(atmos.h_b, call.i), call.hb)).temp

\* the last call resolved a layer below one of the boundaries h_b[0..5]
BelowBoundary == Called /\ atmos.valid /\ call.i \in 0..5

\* the last call was update(h_b[k])
OnBoundary(k) == Called /\ ~call.alt.nan /\ call.alt = At(atmos.h_b, k)

\* In decimal arithmetic the tables are consistent: each layer's tb and lb
\* lead to the next layer's tb at the boundary between them, and the
\* troposphere's gradient is l_b[0].
TablesConsistent ==
    /\ Add(Atmosphere.t_0, Mul(At(l_b_table, 0), At(h_b_table, 0))) = At(t_b_table, 1)
    /\ \A k \in 1..5 :
           Add(At(t_b_table, k),
               Mul(At(l_b_table, k), Sub(At(h_b_table, k), At(h_b_table, k - 1))))
               = At(t_b_table, k + 1)
    /\ Div(Neg(Sub(Atmosphere.t_0, At(t_b_table, 1))), At(h_b_table, 0)) = At(l_b_table, 0)

\* C11 (as stated): at every boundary h_b[k], k = 0..5, the formula of the
\* layer below gives exactly t_b[k+1], the temperature update returns at
\* h_b[k], and the gradient computed for the troposphere equals l_b[0].
C11_ContinuousProfile ==
    /\ BelowBoundary => AtUpperBoundary = At(atmos.t_b, call.i + 1)
    /\ \A k \in 0..5 : OnBoundary(k) => atmos.valid /\ atmos.temp = At(atmos.t_b, k + 1)
    /\ (Called /\ call.via = "troposphere") => call.lb = At(atmos.l_b, 0)

\* C11 (amended): update returns exactly t_b[k+1] at every boundary h_b[k],
\* k = 0..5, and the tables are consistent in decimal arithmetic; in doubles
\* the formula of the layer below gives exactly t_b[k+1] at the boundaries
\* k = 0..4, at h_b[5] = 71000 it gives a value within 1e-12 K of t_b[6] that
\* is not t_b[6], and the gradient computed for the troposphere is within
\* 1e-16 of l_b[0] and is not l_b[0].
C11_ContinuousToRounding ==
    /\ TablesConsistent
    /\ \A k \in 0..5 : OnBoundary(k) => atmos.valid /\ atmos.temp = At(atmos.t_b, k + 1)
    /\ (BelowBoundary /\ call.i < 5) => AtUpperBoundary = At(atmos.t_b, call.i + 1)
    /\ (BelowBoundary /\ call.i = 5) =>
           /\ AtUpperBoundary # At(atmos.t_b, 6)
           /\ Within(decimal(AtUpperBoundary), decimal(At(atmos.t_b, 6)),
                     Num(<< >>, <<0000, 0000, 0001>>))
    /\ (Called /\ call.via = "troposphere") =>
           /\ call.lb # At(atmos.l_b, 0)
           /\ Within(decimal(call.lb), decimal(At(atmos.l_b, 0)),
                     Num(<< >>, <<0000, 0000, 0000, 0001>>))

\* C11: update has resolved the layer from 51000 m to 71000 m in doubles and
\* its formula misses t_b[6] at 71000 m.
C11_Witness ==
    /\ BelowBoundary /\ call.i = 5
    /\ call.hb = At(atmos.h_b, 4)
    /\ AtUpperBoundary # At(atmos.t_b, 6)

=============================================================================
